---- MODULE Spec2Model ----
(***************************************************************************)
(* The database connection lifecycle of the portfolio back end, in its two *)
(* entry points: api/index.js (Vercel serverless, a cached connection and  *)
(* a connect-per-request middleware) and index.js (long-running server,    *)
(* one connect at startup, a SIGINT handler).  One Node process is         *)
(* modelled: a single event loop, so every action is the synchronous run   *)
(* of one callback up to its next await or its return.  The mongoose       *)
(* driver is the environment: it settles each connect()/close() promise,   *)
(* with either outcome, and may report a lost connection at any time.      *)
(***************************************************************************)
EXTENDS Integers, FiniteSets, Sequences, TLC

\* Number of inbound HTTP requests the process sees in one run.
NumReq == 2

Req == 1 .. NumReq

\* mongoose.connection.readyState, as the health handlers decode it.
Disconnected == 0
Connected == 1
Connecting == 2
Disconnecting == 3

NULL == "null"

\* let cachedConnection = null: no handle cached.  A handle is identified
\* by the number of the mongoose.connect call that produced it.
NoHandle == 0

Modes == {"serverless", "longrunning"}

\* Request paths: a resource router (blogs, projects, services, teams) or
\* the health report.
Paths == {"resource", "health"}

\* Underlying causes of a failed establishment when a URI is configured.
Causes == {"timeout", "auth"}

VARIABLES
  mode,             \* which entry point this process runs
  uriSet,           \* process.env.MONGODB_ATLAS_URI is set
  alive,            \* the process has not called process.exit
  exitCode,         \* argument of process.exit, NULL while alive
  readyState,       \* mongoose.connection.readyState
  cachedConnection, \* api/index.js: let cachedConnection
  connectCalls,     \* number of mongoose.connect calls made so far
  pc,               \* per request: idle, awaitConnect, route, done
  path,             \* per request: the path it asked for
  attempt,          \* per request: the mongoose.connect call it made, 0 if none
  got,              \* per request: what await connectDB() gave the middleware
  response,         \* per request: the response sent
  startPc,          \* index.js: init, connecting, connected
  listening,        \* index.js: app.listen has bound the port
  sigPc             \* index.js SIGINT handler: none, closing, done

vars == << mode, uriSet, alive, exitCode, readyState, cachedConnection,
           connectCalls, pc, path, attempt, got, response, startPc,
           listening, sigPc >>

reqVars == << pc, path, attempt, got, response >>
procVars == << alive, exitCode >>
longVars == << startPc, listening, sigPc >>

\* error.message of the error mongoose.connect rejects with.
ErrorMessage(cause) ==
  CASE cause = "timeout" -> "Server selection timed out after 5000 ms"
    [] cause = "auth" -> "bad auth : authentication failed"
    [] cause = "config" -> "The uri parameter to openUri must be a string, got undefined"

\* The causes the driver can reject a connect with: without a URI it can
\* only reject, and for that reason.
RejectCauses == IF uriSet THEN Causes ELSE {"config"}

\* dbStatusText[dbStatus] of the health handlers.
dbStatusText(rs) ==
  CASE rs = Disconnected -> "disconnected"
    [] rs = Connected -> "connected"
    [] rs = Connecting -> "connecting"
    [] rs = Disconnecting -> "disconnecting"

\* What await connectDB() gave the middleware: nothing yet, the handle, or
\* the error thrown.
NoResult == [st |-> "none", handle |-> NoHandle, cause |-> NULL]
Resolved(h) == [st |-> "handle", handle |-> h, cause |-> NULL]
Thrown(c) == [st |-> "error", handle |-> NoHandle, cause |-> c]

NoResponse == [status |-> 0, kind |-> "none", body |-> << >>]

\* Requests whose mongoose.connect promise is still pending.
Pending == {r \in Req : pc[r] = "awaitConnect"}

Init ==
  /\ mode \in Modes
  /\ uriSet \in BOOLEAN
  /\ alive = TRUE
  /\ exitCode = NULL
  /\ readyState = Disconnected
  /\ cachedConnection = NoHandle
  /\ connectCalls = 0
  /\ pc = [r \in Req |-> "idle"]
  /\ path = [r \in Req |-> NULL]
  /\ attempt = [r \in Req |-> 0]
  /\ got = [r \in Req |-> NoResult]
  /\ response = [r \in Req |-> NoResponse]
  /\ startPc = "init"
  /\ listening = FALSE
  /\ sigPc = "none"

\* connectDB without its cache check.
CacheHitNever == FALSE

\* if (cachedConnection)
CacheHit == cachedConnection # NoHandle

\* The driver's state once a connect call is made: a connection that is
\* neither open nor opening starts opening.
OnConnectCall(rs) == IF rs = Disconnected THEN Connecting ELSE rs

\* The driver's state once the connect of request r is rejected: the
\* connection falls back to disconnected unless it is open, closing, or
\* another connect is still opening it.
OnConnectReject(rs, others) ==
  IF rs = Connecting /\ others = {} THEN Disconnected ELSE rs

\* The body of the 500 response of the db-connect middleware.
DbFailBody(cause) == << "Database connection failed", ErrorMessage(cause) >>

\* api/index.js: a request reaches the db-connect middleware, which calls
\* connectDB(): the cached handle is returned, or mongoose.connect is
\* called and awaited.
Arrive(r, p) ==
  /\ mode = "serverless"
  /\ alive
  /\ pc[r] = "idle"
  /\ path' = [path EXCEPT ![r] = p]
  /\ IF CacheHit
       THEN /\ got' = [got EXCEPT ![r] = Resolved(cachedConnection)]
            /\ pc' = [pc EXCEPT ![r] = "route"]
            /\ UNCHANGED << connectCalls, attempt, readyState >>
       ELSE /\ connectCalls' = connectCalls + 1
            /\ attempt' = [attempt EXCEPT ![r] = connectCalls + 1]
            /\ readyState' = OnConnectCall(readyState)
            /\ pc' = [pc EXCEPT ![r] = "awaitConnect"]
            /\ UNCHANGED got
  /\ UNCHANGED << mode, uriSet, procVars, cachedConnection, response, longVars >>

\* api/index.js: mongoose.connect resolves for request r; connectDB caches
\* and returns the handle, the middleware calls next().
ConnectResolve(r) ==
  /\ mode = "serverless"
  /\ alive
  /\ pc[r] = "awaitConnect"
  /\ uriSet
  /\ readyState' = Connected
  /\ cachedConnection' = attempt[r]
  /\ got' = [got EXCEPT ![r] = Resolved(attempt[r])]
  /\ pc' = [pc EXCEPT ![r] = "route"]
  /\ UNCHANGED << mode, uriSet, procVars, connectCalls, path, attempt,
                  response, longVars >>

\* The middleware's catch falling through to next() instead of answering.
ConnectRejectCallsNext(r, cause) ==
  /\ mode = "serverless"
  /\ alive
  /\ pc[r] = "awaitConnect"
  /\ cause \in RejectCauses
  /\ readyState' = OnConnectReject(readyState, Pending \ {r})
  /\ got' = [got EXCEPT ![r] = Thrown(cause)]
  /\ pc' = [pc EXCEPT ![r] = "route"]
  /\ UNCHANGED << mode, uriSet, procVars, cachedConnection, connectCalls,
                  path, attempt, response, longVars >>

\* connectDB caching the handle of the attempt before it knows the outcome.
ConnectRejectCachesPartial(r, cause) ==
  /\ mode = "serverless"
  /\ alive
  /\ pc[r] = "awaitConnect"
  /\ cause \in RejectCauses
  /\ readyState' = OnConnectReject(readyState, Pending \ {r})
  /\ cachedConnection' = attempt[r]
  /\ got' = [got EXCEPT ![r] = Thrown(cause)]
  /\ response' = [response EXCEPT ![r] =
                    [status |-> 500, kind |-> "dbfail", body |-> DbFailBody(cause)]]
  /\ pc' = [pc EXCEPT ![r] = "done"]
  /\ UNCHANGED << mode, uriSet, procVars, connectCalls, path, attempt,
                  longVars >>

\* api/index.js: mongoose.connect rejects for request r; connectDB logs and
\* rethrows, the middleware answers 500 and does not call next().
ConnectReject(r, cause) ==
  /\ mode = "serverless"
  /\ alive
  /\ pc[r] = "awaitConnect"
  /\ cause \in RejectCauses
  /\ readyState' = OnConnectReject(readyState, Pending \ {r})
  /\ got' = [got EXCEPT ![r] = Thrown(cause)]
  /\ response' = [response EXCEPT ![r] =
                    [status |-> 500, kind |-> "dbfail", body |-> DbFailBody(cause)]]
  /\ pc' = [pc EXCEPT ![r] = "done"]
  /\ UNCHANGED << mode, uriSet, procVars, cachedConnection, connectCalls,
                  path, attempt, longVars >>

\* index.js: a request is accepted by the bound listener; there is no
\* db-connect middleware, the routes come next.
ArriveLong(r, p) ==
  /\ mode = "longrunning"
  /\ alive
  /\ listening
  /\ pc[r] = "idle"
  /\ path' = [path EXCEPT ![r] = p]
  /\ pc' = [pc EXCEPT ![r] = "route"]
  /\ UNCHANGED << mode, uriSet, procVars, readyState, cachedConnection,
                  connectCalls, attempt, got, response, longVars >>

\* The message field of the health report.
HealthMessage == IF mode = "serverless" THEN "Server is running on Vercel"
                 ELSE "Server is running"

\* A health handler that calls connectDB() itself before reporting.
ServeHealthConnects(r) ==
  /\ alive
  /\ pc[r] = "route"
  /\ path[r] = "health"
  /\ connectCalls' = connectCalls + 1
  /\ readyState' = OnConnectCall(readyState)
  /\ response' = [response EXCEPT ![r] =
                    [status |-> 200, kind |-> "health",
                     body |-> << "OK", HealthMessage, dbStatusText(readyState) >>]]
  /\ pc' = [pc EXCEPT ![r] = "done"]
  /\ UNCHANGED << mode, uriSet, procVars, cachedConnection, path, attempt,
                  got, longVars >>

\* GET /api/health: reads mongoose.connection.readyState and answers.
ServeHealth(r) ==
  /\ alive
  /\ pc[r] = "route"
  /\ path[r] = "health"
  /\ response' = [response EXCEPT ![r] =
                    [status |-> 200, kind |-> "health",
                     body |-> << "OK", HealthMessage, dbStatusText(readyState) >>]]
  /\ pc' = [pc EXCEPT ![r] = "done"]
  /\ UNCHANGED << mode, uriSet, procVars, readyState, cachedConnection,
                  connectCalls, path, attempt, got, longVars >>

\* /api/blogs, /api/projects, /api/services, /api/teams: the router is
\* invoked; what it answers is outside this model.
ServeResource(r) ==
  /\ alive
  /\ pc[r] = "route"
  /\ path[r] = "resource"
  /\ response' = [response EXCEPT ![r] =
                    [status |-> 200, kind |-> "resource", body |-> << >>]]
  /\ pc' = [pc EXCEPT ![r] = "done"]
  /\ UNCHANGED << mode, uriSet, procVars, readyState, cachedConnection,
                  connectCalls, path, attempt, got, longVars >>

\* The driver reports the connection lost.  api/index.js registers no
\* listener; the listeners of index.js only log.
DriverDisconnect ==
  /\ alive
  /\ readyState = Connected
  /\ readyState' = Disconnected
  /\ UNCHANGED << mode, uriSet, procVars, cachedConnection, connectCalls,
                  reqVars, longVars >>

\* index.js, module evaluation: connectDB() is called and not awaited, the
\* listeners and routes are registered, app.listen binds the port.
Startup ==
  /\ mode = "longrunning"
  /\ alive
  /\ startPc = "init"
  /\ connectCalls' = connectCalls + 1
  /\ readyState' = OnConnectCall(readyState)
  /\ startPc' = "connecting"
  /\ listening' = TRUE
  /\ UNCHANGED << mode, uriSet, procVars, cachedConnection, reqVars, sigPc >>

\* index.js connectDB: mongoose.connect resolves, host and name are logged.
StartupResolve ==
  /\ mode = "longrunning"
  /\ alive
  /\ startPc = "connecting"
  /\ uriSet
  /\ readyState' = IF readyState = Connecting THEN Connected ELSE readyState
  /\ startPc' = "connected"
  /\ UNCHANGED << mode, uriSet, procVars, cachedConnection, connectCalls,
                  reqVars, listening, sigPc >>

\* index.js connectDB: mongoose.connect rejects, process.exit(1).
StartupReject(cause) ==
  /\ mode = "longrunning"
  /\ alive
  /\ startPc = "connecting"
  /\ cause \in RejectCauses
  /\ readyState' = Disconnected
  /\ startPc' = "failed"
  /\ alive' = FALSE
  /\ exitCode' = "1"
  /\ UNCHANGED << mode, uriSet, cachedConnection, connectCalls, reqVars,
                  listening, sigPc >>

\* index.js: SIGINT arrives; the handler calls mongoose.connection.close()
\* and awaits it.  Closing a connection that is not open settles at once
\* in CloseResolve.
Sigint ==
  /\ mode = "longrunning"
  /\ alive
  /\ startPc # "init"
  /\ sigPc = "none"
  /\ sigPc' = "closing"
  /\ readyState' = IF readyState \in {Connected, Connecting}
                   THEN Disconnecting ELSE readyState
  /\ UNCHANGED << mode, uriSet, procVars, cachedConnection, connectCalls,
                  reqVars, startPc, listening >>

\* index.js SIGINT handler: close() resolved, process.exit(0).
CloseResolve ==
  /\ mode = "longrunning"
  /\ alive
  /\ sigPc = "closing"
  /\ readyState' = Disconnected
  /\ sigPc' = "closed"
  /\ alive' = FALSE
  /\ exitCode' = "0"
  /\ UNCHANGED << mode, uriSet, cachedConnection, connectCalls, reqVars,
                  startPc, listening >>

\* index.js SIGINT handler: close() rejected, process.exit(1).
CloseReject ==
  /\ mode = "longrunning"
  /\ alive
  /\ sigPc = "closing"
  /\ readyState # Disconnected
  /\ sigPc' = "closeFailed"
  /\ alive' = FALSE
  /\ exitCode' = "1"
  /\ UNCHANGED << mode, uriSet, readyState, cachedConnection, connectCalls,
                  reqVars, startPc, listening >>

Next ==
  \/ \E r \in Req, p \in Paths : Arrive(r, p)
  \/ \E r \in Req : ConnectResolve(r)
  \/ \E r \in Req, c \in Causes \cup {"config"} : ConnectReject(r, c)
  \/ \E r \in Req, p \in Paths : ArriveLong(r, p)
  \/ \E r \in Req : ServeHealth(r)
  \/ \E r \in Req : ServeResource(r)
  \/ DriverDisconnect
  \/ Startup
  \/ StartupResolve
  \/ \E c \in Causes \cup {"config"} : StartupReject(c)
  \/ Sigint
  \/ CloseResolve
  \/ CloseReject

Spec == Init /\ [][Next]_vars

----
\* The claims.

\* C1: in serverless mode, connectDB() calls that interleave while no handle
\* is cached make exactly one establishment attempt: at no time are two
\* mongoose.connect calls in flight.
SingleEstablishment ==
  mode = "serverless" => Cardinality(Pending) <= 1

\* C2: in serverless mode connectDB() never returns a handle while the
\* connection is Disconnected: after a lost connection the next call
\* establishes again instead of returning the cached handle.
NoStaleHandle ==
  [][\A r \in Req :
       (mode = "serverless" /\ pc[r] = "idle" /\ got'[r].st = "handle")
         => readyState # Disconnected]_vars

\* C3: in long-running mode the listener is bound only once the startup
\* connectDB() has completed successfully.
ListenAfterConnect ==
  (mode = "longrunning" /\ alive /\ listening) => startPc = "connected"

\* C4: in serverless mode a request whose connectDB() failed is answered 500
\* by the middleware and reaches no route handler; next() is called, and a
\* route handler answers, only after connectDB() resolved.
MiddlewareGuardsRoutes ==
  \A r \in Req :
    mode = "serverless" =>
      /\ got[r].st = "error" =>
            /\ pc[r] = "done"
            /\ response[r].status = 500
            /\ response[r].kind = "dbfail"
      /\ (pc[r] = "route" \/ response[r].kind \in {"health", "resource"}) =>
            got[r].st = "handle"

\* C4 witness: one request was answered 500 by the middleware, another was
\* served by a resource router after its connectDB() resolved.
FailedAndRoutedSeen ==
  \E r, q \in Req :
    /\ mode = "serverless"
    /\ got[r].st = "error" /\ response[r].status = 500
    /\ got[q].st = "handle" /\ response[q].kind = "resource"

HealthRequestNeverEstablishes ==
  [][\A r \in Req :
       (path'[r] = "health" /\ pc'[r] # pc[r])
         => UNCHANGED << connectCalls, cachedConnection, readyState >>]_vars

\* C6 as amended: the /api/health route handler itself, in either mode and
\* whatever the connection state, makes no mongoose.connect call and leaves
\* the connection state and the cached handle unchanged.
HealthHandlerIsReadOnly ==
  [][\A r \in Req :
       (pc[r] = "route" /\ path[r] = "health" /\ pc'[r] = "done")
         => UNCHANGED << connectCalls, cachedConnection, readyState >>]_vars

\* C6 witness: a health report was served that says disconnected, while a
\* handle is cached and the only establishment is the earlier one.
HealthReportedDisconnected ==
  \E r \in Req :
    /\ response[r].kind = "health"
    /\ response[r].body[3] = "disconnected"
    /\ readyState = Disconnected
    /\ cachedConnection # NoHandle
    /\ connectCalls = 1

\* C7: in serverless mode a connectDB() call made once a handle is cached
\* returns that handle and makes no mongoose.connect call.
CachedHandleReused ==
  [][\A r \in Req :
       (mode = "serverless" /\ pc[r] = "idle" /\ pc'[r] # "idle"
          /\ cachedConnection # NoHandle)
         => /\ connectCalls' = connectCalls
            /\ cachedConnection' = cachedConnection
            /\ got'[r] = Resolved(cachedConnection)
            /\ pc'[r] = "route"]_vars

\* C7 witness: a request got the handle another request established, made
\* no attempt of its own, and the connection is Connected after one connect.
SecondRequestReusedHandle ==
  \E r, q \in Req :
    /\ mode = "serverless"
    /\ r # q
    /\ attempt[q] = 1 /\ got[q] = Resolved(1)
    /\ attempt[r] = 0 /\ got[r] = Resolved(1)
    /\ readyState = Connected
    /\ connectCalls = 1

\* C8: the 500 response of the db-connect middleware does not depend on the
\* cause: any two such responses have the same body.
GenericFailureBody ==
  \A r, q \in Req :
    (response[r].kind = "dbfail" /\ response[q].kind = "dbfail")
      => response[r].body = response[q].body

\* C9: with MONGODB_ATLAS_URI unset the establishment operation
\* (mongoose.connect) is never invoked.
NoConnectWithoutUri ==
  ~uriSet => connectCalls = 0

\* C10: in long-running mode a process that exited after SIGINT has closed
\* the connection: it is not left open on any exit path.
ExitOnlyAfterShutdown ==
  (mode = "longrunning" /\ ~alive /\ sigPc # "none")
    => readyState = Disconnected

====
